---- MODULE Spec2Model ----
(***************************************************************************)
(* The annotation registry of ngx-reactive-forms-generator (src/index.ts): *)
(* the process-wide METADATA object, the six decorators that mutate it and *)
(* the two accessors that read it.                                         *)
(*                                                                         *)
(* FormGroup and FormControl objects of @angular/forms live in a heap of   *)
(* records addressed by object identity (a natural number, 0 standing for  *)
(* undefined / null).  Of these objects the model keeps what index.ts      *)
(* reads and writes: the named children, the synchronous validators, the   *)
(* asynchronous validators and the value.  The value/validity recomputation*)
(* that the library runs after a change is not part of the model.          *)
(***************************************************************************)
EXTENDS Naturals, Sequences, FiniteSets

(* ------------------------------ bounds -------------------------------- *)

\* calls (decorator applications and accessor calls) in one run of Spec
MaxSteps == 2

\* calls in one run of SpecDeep, which draws its inputs from smaller sets
DeepSteps == 3

\* calls in one run of SpecField, the field-level decorators on two fields
FieldSteps == 3

\* calls in one run of SpecNest, nesting the trees of B in those of A1
NestSteps == 3

\* calls in one run of SpecClass, the class-level decorators alone
ClassSteps == 3

\* calls in one run of SpecNames, the calls given unusual form ids
NameSteps == 2

(* --------------------------- the input space -------------------------- *)

\* Three model classes.  A1 and A2 are two separately declared classes with
\* the same name and the same body (as the LoginRequest classes of
\* src/tests.ts); B is a class with another name and body.
Types == {"A1", "A2", "B"}

\* type.name
NameOf(t) == IF t = "B" THEN "B" ELSE "A"

\* The property key METADATA[type] uses: a class object used as a property
\* key is converted to a string, which for a class is its source text.  A1
\* and A2 have the same text.
KeyOf(t) == IF t = "B" THEN "class B" ELSE "class A"

Keys == {KeyOf(t) : t \in Types}

DEFAULT_GROUP == "!A!N!S!R!!!THIS_IS_THE_DEFAULT_GROUP_ID!!A!N!S!R!"

\* undefined / null as an object reference
Undefined == 0

\* A value of FormIdType = string | string[] | undefined (null for the
\* accessor), tagged so that the three shapes stay apart.
FidUndefined == [tag |-> "undefined", val |-> <<>>]
FidString(s) == [tag |-> "string", val |-> <<s>>]
FidArray(a) == [tag |-> "array", val |-> a]

\* the form ids the decorators are applied with
FormIdInputs ==
    { FidUndefined, FidString("v"), FidArray(<<DEFAULT_GROUP, "v">>) }

\* the source form ids of NestedFormGroup (string | undefined)
SourceIdInputs == { FidUndefined, FidString("v"), FidString(DEFAULT_GROUP) }

\* the classes NestedFormGroup is given as sources
SourceTypes == {"A1", "B"}

\* the form ids toFormGroup is called with (string | null)
LookupIdInputs == { FidUndefined, FidString("v"), FidString(DEFAULT_GROUP) }

\* the lists toFormGroups is called with
LookupListInputs == { <<>>, <<DEFAULT_GROUP, "v">> }

\* property names of the model classes
AllFields == {"f", "g"}

\* the properties the decorators of Spec are applied to
Fields == {"f"}

\* the validatorsOrOptions arguments: sets of synchronous validator functions
SyncInputs == { {"required"}, {"minLength5"} }

\* asynchronous validator functions written by the user
AsyncFns == {"P"}

\* the smaller input sets of SpecDeep
DeepTypes == {"A1", "B"}
DeepFormIdInputs == { FidUndefined, FidString("v") }
DeepFields == {"f"}
DeepSyncInputs == { {"required"} }

\* the input sets of SpecField: the two same-text classes, both properties,
\* one form or the default form and the form "v" together
FieldTypes == {"A1", "A2"}
FieldFormIdInputs == { FidUndefined, FidArray(<<DEFAULT_GROUP, "v">>) }

\* the input sets of SpecNest: a host class and a source class, hosts named
\* one at a time or two together, the source by its default form or "v"
NestTypes == {"A1", "B"}
NestSources == {"B"}
NestFormIdInputs == { FidUndefined, FidArray(<<DEFAULT_GROUP, "v">>) }
NestSourceIdInputs == { FidUndefined, FidString("v") }
NestSyncInputs == { {"required"} }

\* the input sets of SpecClass: two classes, one form or two together, two
\* asynchronous validator functions
ClassTypes == {"A1", "B"}
ClassFormIdInputs == { FidUndefined, FidArray(<<DEFAULT_GROUP, "v">>) }
ClassAsyncFns == {"P", "Q"}

\* the input sets of SpecNames: form ids that are the empty list or a class
\* name, next to no form id
NameTypes == {"A1", "B"}
NameFormIdInputs ==
    { FidUndefined, FidArray(<<>>), FidString("A"), FidString("B") }
NameLookupIdInputs == { FidUndefined, FidString("A"), FidString("B") }
NameSyncInputs == { {"required"} }

\* what the user types into an input bound to a control
TypedValues == { <<"typed", "text">> }

(* ----------------------- @angular/forms objects ----------------------- *)

\* An asynchronous validator function: the user's functions it runs, and
\* whether it is a composition built by the library (a new function object)
\* or the user's own function.
UserFn(a) == [atoms |-> {a}, composed |-> FALSE]
NoFn == [atoms |-> {}, composed |-> FALSE]

\* null in the place of the raw asynchronous validators
NoAsync == [isArray |-> FALSE, fns |-> {}]

NoControls == [p \in AllFields |-> Undefined]

\* new FormGroup({})
NewFormGroup ==
    [kind |-> "group", controls |-> NoControls, validators |-> {},
     asyncRaw |-> NoAsync, value |-> <<"", "">>]

\* new FormControl(value, validatorsOrOptions, asyncValidator)
NewFormControl(value, validators, asyncFn) ==
    [kind |-> "control", controls |-> NoControls, validators |-> validators,
     asyncRaw |-> IF asyncFn = NoFn THEN NoAsync
                  ELSE [isArray |-> FALSE, fns |-> {asyncFn}],
     value |-> value]

\* AbstractControl.asyncValidator: the one function the raw asynchronous
\* validators coerce to; an array is composed into a new function, a single
\* function is returned itself, none gives null.
AsyncValidatorOf(obj) ==
    IF obj.asyncRaw.fns = {} THEN NoFn
    ELSE IF obj.asyncRaw.isArray
         THEN [atoms |-> UNION {fn.atoms : fn \in obj.asyncRaw.fns},
               composed |-> TRUE]
         ELSE CHOOSE fn \in obj.asyncRaw.fns : TRUE

\* AbstractControl.addAsyncValidators(fn): the raw validators become an array
\* holding the earlier ones and fn.
AddAsyncValidators(obj, fn) ==
    [obj EXCEPT !.asyncRaw = [isArray |-> TRUE, fns |-> @.fns \cup {fn}]]

\* AbstractControl.addValidators(validators)
AddValidators(obj, validators) ==
    [obj EXCEPT !.validators = @ \cup validators]

\* AbstractControl.value: a control's own value; a group's value is the
\* object of its children's values, kept as one token.
ValueOf(obj) == IF obj.kind = "group" THEN <<"group", "value">> ELSE obj.value

\* new type()[propName]: the property's initial value on a default instance.
\* It is decided by the class body, which A1 and A2 share.
DefaultValue(type, propName) == <<KeyOf(type), propName>>

(* ------------------------------ the state ----------------------------- *)

VARIABLES
    METADATA,   \* key -> [defined, forms]: the forms of a key in insertion order
    heap,       \* object identity -> FormGroup / FormControl record
    nextId,     \* the identity the next constructed object gets
    ret,        \* the last call and its outcome
    budget      \* calls the run may still make

vars == <<METADATA, heap, nextId, ret, budget>>

\* The registry and the heap as one value, threaded through a handler.
\* m: METADATA, h: heap, n: nextId
Store(m, h, n) == [m |-> m, h |-> h, n |-> n]

Current == Store(METADATA, heap, nextId)

\* METADATA[key][f]; Undefined when the key has no such form.  The caller
\* checks that METADATA[key] is defined (reading a property of undefined
\* throws).
Lookup(m, key, f) ==
    LET hits == {i \in 1..Len(m[key].forms) : m[key].forms[i].name = f}
    IN IF hits = {} THEN Undefined
       ELSE m[key].forms[CHOOSE i \in hits : TRUE].fg

\* !!formId
Truthy(formId) ==
    \/ formId.tag = "array"
    \/ formId.tag = "string" /\ formId.val[1] # ""

(* ------------------------- the private helpers ------------------------ *)

\* normalizeFormId with the default form always among the names
normalizeFormIdPlusDefault(type, formId) ==
    LET forms == IF Truthy(formId) THEN <<NameOf(type)>> \o formId.val
                 ELSE <<NameOf(type)>>
    IN [i \in 1..Len(forms) |->
            IF forms[i] = DEFAULT_GROUP THEN NameOf(type) ELSE forms[i]]

\* normalizeFormId with DEFAULT_GROUP left as it is
normalizeFormIdRaw(type, formId) ==
    IF Truthy(formId) THEN formId.val ELSE <<NameOf(type)>>

\* normalizeFormId keeping the default form under DEFAULT_GROUP in place of
\* the type's name
normalizeFormIdSentinelKey(type, formId) ==
    IF Truthy(formId) THEN formId.val ELSE <<DEFAULT_GROUP>>

\* normalizeFormId taking the empty list for no form id
normalizeFormIdEmptyAsDefault(type, formId) ==
    LET forms == IF Truthy(formId) /\ Len(formId.val) > 0 THEN formId.val
                 ELSE <<NameOf(type)>>
    IN [i \in 1..Len(forms) |->
            IF forms[i] = DEFAULT_GROUP THEN NameOf(type) ELSE forms[i]]

\* normalizeFormId(type, formId): the list of form names a form id stands
\* for; no form id stands for the type's name, and so does DEFAULT_GROUP.
normalizeFormId(type, formId) ==
    LET forms == IF Truthy(formId) THEN formId.val ELSE <<NameOf(type)>>
    IN [i \in 1..Len(forms) |->
            IF forms[i] = DEFAULT_GROUP THEN NameOf(type) ELSE forms[i]]

PutObj(h, id, obj) ==
    [x \in DOMAIN h \cup {id} |-> IF x = id THEN obj ELSE h[x]]

\* InitializeEach with one FormGroup constructed for the whole call and
\* stored under every missing name
InitializeEachShared(S, key, forms, i) ==
    LET missing == SelectSeq(forms, LAMBDA f : Lookup(S.m, key, f) = Undefined)
    IN IF Len(missing) = 0 THEN S
       ELSE Store([S.m EXCEPT ![key].forms =
                       @ \o [j \in 1..Len(missing) |->
                                 [name |-> missing[j], fg |-> S.n]]],
                  PutObj(S.h, S.n, NewFormGroup),
                  S.n + 1)

\* InitializeEach constructing a FormGroup for every name, a name that has
\* an entry included, whose entry it overwrites
RECURSIVE InitializeEachAnew(_, _, _, _)
InitializeEachAnew(S, key, forms, i) ==
    IF i > Len(forms) THEN S
    ELSE InitializeEachAnew(
             Store([S.m EXCEPT ![key].forms =
                        IF Lookup(S.m, key, forms[i]) = Undefined
                        THEN Append(@, [name |-> forms[i], fg |-> S.n])
                        ELSE [j \in 1..Len(@) |->
                                  IF @[j].name = forms[i]
                                  THEN [name |-> forms[i], fg |-> S.n]
                                  ELSE @[j]]],
                   PutObj(S.h, S.n, NewFormGroup),
                   S.n + 1),
             key, forms, i + 1)

\* the formId.forEach of initializeMetadata, from the i-th name on
RECURSIVE InitializeEach(_, _, _, _)
InitializeEach(S, key, forms, i) ==
    IF i > Len(forms) THEN S
    ELSE IF Lookup(S.m, key, forms[i]) # Undefined
         THEN InitializeEach(S, key, forms, i + 1)
         ELSE InitializeEach(
                  Store([S.m EXCEPT ![key].forms =
                             Append(@, [name |-> forms[i], fg |-> S.n])],
                        PutObj(S.h, S.n, NewFormGroup),
                        S.n + 1),
                  key, forms, i + 1)

\* initializeMetadata assigning METADATA[target] = {} on every call
initializeMetadataReset(S, target, formId) ==
    InitializeEach(Store([S.m EXCEPT ![KeyOf(target)] =
                              [defined |-> TRUE, forms |-> <<>>]],
                         S.h, S.n),
                   KeyOf(target), normalizeFormId(target, formId), 1)

\* initializeMetadata(target, formId)
initializeMetadata(S, target, formId) ==
    LET key == KeyOf(target)
        S1 == IF S.m[key].defined THEN S
              ELSE Store([S.m EXCEPT ![key] = [defined |-> TRUE, forms |-> <<>>]],
                         S.h, S.n)
    IN InitializeEach(S1, key, normalizeFormId(target, formId), 1)

\* getFormGroups giving every form of the target, whatever the form id
getFormGroupsAll(S, target, formId) ==
    [i \in 1..Len(S.m[KeyOf(target)].forms) |-> S.m[KeyOf(target)].forms[i].fg]

\* getFormGroups giving the form of the first name only
getFormGroupsFirst(S, target, formId) ==
    LET forms == normalizeFormId(target, formId)
    IN [i \in 1..(IF Len(forms) > 0 THEN 1 ELSE 0) |->
            Lookup(S.m, KeyOf(target), forms[i])]

\* getFormGroups(target, formId): METADATA[target][f] for every name f
getFormGroups(S, target, formId) ==
    LET forms == normalizeFormId(target, formId)
    IN [i \in 1..Len(forms) |-> Lookup(S.m, KeyOf(target), forms[i])]

\* getFormGroups throws a TypeError when it reads METADATA[target][f] and
\* METADATA[target] is undefined
getFormGroupsThrows(S, target, formId) ==
    /\ Len(normalizeFormId(target, formId)) > 0
    /\ ~S.m[KeyOf(target)].defined

Range(seq) == {seq[i] : i \in 1..Len(seq)}

(* ---------------- FormGroup.get / addControl / removeControl ---------- *)

\* formGroup.get(propName)
Get(h, g, propName) == h[g].controls[propName]

\* formGroup.addControl(propName, control): registers the control unless
\* the group already has a child under that name, which it then keeps
AddControl(h, g, propName, control) ==
    IF h[g].controls[propName] # Undefined THEN h
    ELSE [h EXCEPT ![g].controls[propName] = control]

\* formGroup.removeControl(propName).  A FormControl taken out of its group
\* is referenced by nothing else and leaves the heap; a FormGroup stays, it
\* is an entry of METADATA.
RemoveControl(h, g, propName) ==
    LET old == h[g].controls[propName]
        h1 == [h EXCEPT ![g].controls[propName] = Undefined]
    IN IF old # Undefined /\ h[old].kind = "control"
       THEN [x \in DOMAIN h1 \ {old} |-> h1[x]]
       ELSE h1

(* ------------------------------ decorators ---------------------------- *)

\* what a call gives back: nothing, a thrown TypeError, or a value
Void == [kind |-> "void", val |-> <<>>]
TypeError == [kind |-> "TypeError", val |-> <<>>]

\* the record of a call: the function, the class and property it was applied
\* to, its form id, and what it gave back
Call(op, type, propName, formId, result) ==
    [op |-> op, type |-> type, prop |-> propName, formId |-> formId,
     kind |-> result.kind, val |-> result.val]

\* what every call does to the bookkeeping
Step == /\ budget > 0
        /\ budget' = budget - 1

Commit(S) ==
    /\ METADATA' = S.m
    /\ heap' = S.h
    /\ nextId' = S.n

\* FormGroupTarget without its call of initializeMetadata
FormGroupTargetNoInit(target, formId) ==
    /\ Step
    /\ UNCHANGED <<METADATA, heap, nextId>>
    /\ ret' = Call("FormGroupTarget", target, "", formId, Void)

\* @FormGroupTarget(formId) on class target
FormGroupTarget(target, formId) ==
    /\ Step
    /\ Commit(initializeMetadata(Current, target, formId))
    /\ ret' = Call("FormGroupTarget", target, "", formId, Void)

\* FormGroupValidators setting the validators of the form groups in place
\* of adding to them
FormGroupValidatorsOverrides(target, validators, formId) ==
    LET S == initializeMetadata(Current, target, formId)
        groups == Range(getFormGroups(S, target, formId))
    IN /\ Step
       /\ Commit(Store(S.m,
                       [x \in DOMAIN S.h |->
                            IF x \in groups
                            THEN [S.h[x] EXCEPT !.validators = validators]
                            ELSE S.h[x]],
                       S.n))
       /\ ret' = Call("FormGroupValidators", target, "", formId, Void)

\* @FormGroupValidators(validators, formId) on class target
FormGroupValidators(target, validators, formId) ==
    LET S == initializeMetadata(Current, target, formId)
        groups == Range(getFormGroups(S, target, formId))
    IN /\ Step
       /\ Commit(Store(S.m,
                       [x \in DOMAIN S.h |->
                            IF x \in groups THEN AddValidators(S.h[x], validators)
                            ELSE S.h[x]],
                       S.n))
       /\ ret' = Call("FormGroupValidators", target, "", formId, Void)

\* @FormGroupAsyncValidators(validators, formId) on class target
FormGroupAsyncValidators(target, validators, formId) ==
    LET S == initializeMetadata(Current, target, formId)
        groups == Range(getFormGroups(S, target, formId))
    IN /\ Step
       /\ Commit(Store(S.m,
                       [x \in DOMAIN S.h |->
                            IF x \in groups
                            THEN AddAsyncValidators(S.h[x], validators)
                            ELSE S.h[x]],
                       S.n))
       /\ ret' = Call("FormGroupAsyncValidators", target, "", formId, Void)

\* FormControlTargetOne with the old asynchronous validator not handed on
FormControlTargetOneDropsAsync(S, type, propName, validators, formGroup) ==
    Store(S.m,
          AddControl(PutObj(RemoveControl(S.h, formGroup, propName), S.n,
                            NewFormControl(
                                IF Get(S.h, formGroup, propName) = Undefined
                                THEN DefaultValue(type, propName)
                                ELSE ValueOf(S.h[Get(S.h, formGroup, propName)]),
                                validators, NoFn)),
                     formGroup, propName, S.n),
          S.n + 1)

\* FormControlTargetOne leaving a nested form group in its place and adding
\* the validators to it
FormControlTargetOneKeepsGroup(S, type, propName, validators, formGroup) ==
    LET ctrl == Get(S.h, formGroup, propName)
    IN IF ctrl # Undefined /\ S.h[ctrl].kind = "group"
       THEN Store(S.m, [S.h EXCEPT ![ctrl] = AddValidators(@, validators)], S.n)
       ELSE Store(S.m,
                  AddControl(PutObj(RemoveControl(S.h, formGroup, propName), S.n,
                                    IF ctrl = Undefined
                                    THEN NewFormControl(DefaultValue(type, propName),
                                                        validators, NoFn)
                                    ELSE NewFormControl(ValueOf(S.h[ctrl]), validators,
                                                        AsyncValidatorOf(S.h[ctrl]))),
                             formGroup, propName, S.n),
                  S.n + 1)

\* FormControlTargetOne removing a control the group has and adding none
FormControlTargetOneRemoves(S, type, propName, validators, formGroup) ==
    IF Get(S.h, formGroup, propName) = Undefined
    THEN Store(S.m,
               AddControl(PutObj(S.h, S.n,
                                 NewFormControl(DefaultValue(type, propName),
                                                validators, NoFn)),
                          formGroup, propName, S.n),
               S.n + 1)
    ELSE Store(S.m, RemoveControl(S.h, formGroup, propName), S.n)

\* FormControlTargetOne with a new field's control constructed without the
\* default instance's value
FormControlTargetOneNoDefault(S, type, propName, validators, formGroup) ==
    LET ctrl == Get(S.h, formGroup, propName)
    IN Store(S.m,
             AddControl(PutObj(RemoveControl(S.h, formGroup, propName), S.n,
                               IF ctrl = Undefined
                               THEN NewFormControl(<<"", "">>, validators, NoFn)
                               ELSE NewFormControl(ValueOf(S.h[ctrl]), validators,
                                                   AsyncValidatorOf(S.h[ctrl]))),
                        formGroup, propName, S.n),
             S.n + 1)

\* FormControlTargetOne with the replacement keeping the synchronous
\* validators of the control it replaces next to the new ones
FormControlTargetOneKeepsRules(S, type, propName, validators, formGroup) ==
    LET ctrl == Get(S.h, formGroup, propName)
    IN Store(S.m,
             AddControl(PutObj(RemoveControl(S.h, formGroup, propName), S.n,
                               IF ctrl = Undefined
                               THEN NewFormControl(DefaultValue(type, propName),
                                                   validators, NoFn)
                               ELSE NewFormControl(ValueOf(S.h[ctrl]),
                                                   validators \cup S.h[ctrl].validators,
                                                   AsyncValidatorOf(S.h[ctrl]))),
                        formGroup, propName, S.n),
             S.n + 1)

\* the body of FormControlTarget's forEach for one form group: a field the
\* group lacks gets a new control holding the default instance's value; a
\* field it has is removed and re-added as a new control with the old value
\* and the old asynchronous validator
FormControlTargetOne(S, type, propName, validators, formGroup) ==
    LET ctrl == Get(S.h, formGroup, propName)
    IN IF ctrl = Undefined
       THEN Store(S.m,
                  AddControl(PutObj(S.h, S.n,
                                    NewFormControl(DefaultValue(type, propName),
                                                   validators, NoFn)),
                             formGroup, propName, S.n),
                  S.n + 1)
       ELSE Store(S.m,
                  AddControl(PutObj(RemoveControl(S.h, formGroup, propName), S.n,
                                    NewFormControl(ValueOf(S.h[ctrl]), validators,
                                                   AsyncValidatorOf(S.h[ctrl]))),
                             formGroup, propName, S.n),
                  S.n + 1)

RECURSIVE FormControlTargetEach(_, _, _, _, _, _)
FormControlTargetEach(S, type, propName, validators, groups, i) ==
    IF i > Len(groups) THEN S
    ELSE FormControlTargetEach(
             FormControlTargetOne(S, type, propName, validators, groups[i]),
             type, propName, validators, groups, i + 1)

\* @FormControlTarget(validatorsOrOptions, formId) on property propName
FormControlTarget(type, propName, validators, formId) ==
    LET S == initializeMetadata(Current, type, formId)
    IN /\ Step
       /\ Commit(FormControlTargetEach(S, type, propName, validators,
                                       getFormGroups(S, type, formId), 1))
       /\ ret' = Call("FormControlTarget", type, propName, formId, Void)

\* FormControlAsyncValidatorsOne constructing the control anew in place, with
\* its value and the asynchronous validator, when the group has the field
FormControlAsyncValidatorsOneRebuilds(S, type, propName, validators, formGroup) ==
    LET ctrl == Get(S.h, formGroup, propName)
    IN IF ctrl = Undefined
       THEN Store(S.m,
                  AddControl(PutObj(S.h, S.n,
                                    NewFormControl(DefaultValue(type, propName),
                                                   {}, validators)),
                             formGroup, propName, S.n),
                  S.n + 1)
       ELSE Store(S.m,
                  [S.h EXCEPT ![ctrl] =
                       NewFormControl(ValueOf(S.h[ctrl]), {}, validators)],
                  S.n)

\* FormControlAsyncValidatorsOne replacing a leaf the group has by a new
\* control, as FormControlTarget does
FormControlAsyncValidatorsOneReplaces(S, type, propName, validators, formGroup) ==
    LET ctrl == Get(S.h, formGroup, propName)
        old == IF ctrl = Undefined
               THEN NewFormControl(DefaultValue(type, propName), {}, NoFn)
               ELSE S.h[ctrl]
    IN Store(S.m,
             AddControl(PutObj(RemoveControl(S.h, formGroup, propName), S.n,
                               AddAsyncValidators(
                                   [old EXCEPT !.kind = "control"], validators)),
                        formGroup, propName, S.n),
             S.n + 1)

\* the body of FormControlAsyncValidators' forEach for one form group
FormControlAsyncValidatorsOne(S, type, propName, validators, formGroup) ==
    LET ctrl == Get(S.h, formGroup, propName)
    IN IF ctrl = Undefined
       THEN Store(S.m,
                  AddControl(PutObj(S.h, S.n,
                                    NewFormControl(DefaultValue(type, propName),
                                                   {}, validators)),
                             formGroup, propName, S.n),
                  S.n + 1)
       ELSE Store(S.m,
                  [S.h EXCEPT ![ctrl] = AddAsyncValidators(@, validators)],
                  S.n)

RECURSIVE FormControlAsyncValidatorsEach(_, _, _, _, _, _)
FormControlAsyncValidatorsEach(S, type, propName, validators, groups, i) ==
    IF i > Len(groups) THEN S
    ELSE FormControlAsyncValidatorsEach(
             FormControlAsyncValidatorsOne(S, type, propName, validators, groups[i]),
             type, propName, validators, groups, i + 1)

\* @FormControlAsyncValidators(validators, formId) on property propName
FormControlAsyncValidators(type, propName, validators, formId) ==
    LET S == initializeMetadata(Current, type, formId)
    IN /\ Step
       /\ Commit(FormControlAsyncValidatorsEach(S, type, propName, validators,
                                                getFormGroups(S, type, formId), 1))
       /\ ret' = Call("FormControlAsyncValidators", type, propName, formId, Void)

\* NestedSource with the source form id ignored
NestedSourceDefault(S, sourceType, sourceFormId) ==
    getFormGroups(S, sourceType, FidUndefined)[1]

\* the form group NestedFormGroup nests: (getFormGroups(sourceType,
\* sourceFormId) || [])[0]
NestedSource(S, sourceType, sourceFormId) ==
    getFormGroups(S, sourceType, sourceFormId)[1]

\* NestedFormGroup initializing the source form as well, so that a source
\* that is not registered is created and nested
NestedFormGroupCreatesSource(type, propName, sourceType, sourceFormId, targetFormId) ==
    LET S == initializeMetadata(initializeMetadata(Current, sourceType, sourceFormId),
                                type, targetFormId)
        hosts == Range(getFormGroups(S, type, targetFormId))
    IN /\ Step
       /\ ret' = Call("NestedFormGroup", type, propName, targetFormId, Void)
       /\ Commit(Store(S.m,
                       [x \in DOMAIN S.h |->
                            IF x \in hosts
                            THEN AddControl(S.h, x, propName,
                                            NestedSource(S, sourceType, sourceFormId))[x]
                            ELSE S.h[x]],
                       S.n))

\* @NestedFormGroup(sourceType, sourceFormId, targetFormId) on property
\* propName.  The source is looked up inside the forEach over the host form
\* groups, so with at least one host and a source type METADATA has no entry
\* for, the lookup throws after the hosts were initialized.
NestedFormGroup(type, propName, sourceType, sourceFormId, targetFormId) ==
    LET S == initializeMetadata(Current, type, targetFormId)
        hosts == Range(getFormGroups(S, type, targetFormId))
    IN /\ Step
       /\ IF hosts = {}
          THEN /\ Commit(S)
               /\ ret' = Call("NestedFormGroup", type, propName, targetFormId, Void)
          ELSE IF getFormGroupsThrows(S, sourceType, sourceFormId)
          THEN /\ Commit(S)
               /\ ret' = Call("NestedFormGroup", type, propName, targetFormId, TypeError)
          ELSE LET nestedFormGroup == NestedSource(S, sourceType, sourceFormId)
               IN IF nestedFormGroup = Undefined
                  THEN /\ Commit(S)
                       /\ ret' = Call("NestedFormGroup", type, propName, targetFormId, Void)
                  ELSE /\ Commit(Store(S.m,
                                       [x \in DOMAIN S.h |->
                                            IF x \in hosts
                                            THEN AddControl(S.h, x, propName,
                                                            nestedFormGroup)[x]
                                            ELSE S.h[x]],
                                       S.n))
                       /\ ret' = Call("NestedFormGroup", type, propName, targetFormId, Void)

(* ------------------------------ accessors ----------------------------- *)

\* the value of toFormGroup(type, formId): METADATA[type][f] with
\* f = formId ? formId : type.name; a TypeError when METADATA[type] is
\* undefined
toFormGroupValue(m, type, formId) ==
    LET f == IF Truthy(formId) THEN formId.val[1] ELSE NameOf(type)
    IN IF ~m[KeyOf(type)].defined THEN TypeError
       ELSE [kind |-> "one", val |-> <<Lookup(m, KeyOf(type), f)>>]

\* the value of toFormGroups(t, formIds): the named entries of METADATA[t]
\* for a non-empty list, and METADATA[t] itself, the object holding every
\* form of t, for the empty list
toFormGroupsValue(m, t, formIds) ==
    IF Len(formIds) > 0
    THEN IF ~m[KeyOf(t)].defined THEN TypeError
         ELSE [kind |-> "list",
               val |-> [i \in 1..Len(formIds) |-> Lookup(m, KeyOf(t), formIds[i])]]
    ELSE IF ~m[KeyOf(t)].defined THEN [kind |-> "one", val |-> <<Undefined>>]
         ELSE [kind |-> "map",
               val |-> [i \in 1..Len(m[KeyOf(t)].forms) |-> m[KeyOf(t)].forms[i].fg]]

\* a call of toFormGroup(type, formId)
toFormGroup(type, formId) ==
    /\ Step
    /\ ret' = Call("toFormGroup", type, "", formId,
                 toFormGroupValue(METADATA, type, formId))
    /\ UNCHANGED <<METADATA, heap, nextId>>

\* a call of toFormGroups(t, formIds)
toFormGroups(t, formIds) ==
    /\ Step
    /\ ret' = Call("toFormGroups", t, "", FidArray(formIds),
                 toFormGroupsValue(METADATA, t, formIds))
    /\ UNCHANGED <<METADATA, heap, nextId>>

(* ---------------------------- the application ------------------------ *)

\* The form a tree is bound to writes what the user types into the control
\* of the input (FormControl.setValue).
setValue(control, value) ==
    /\ Step
    /\ control \in DOMAIN heap
    /\ heap[control].kind = "control"
    /\ heap' = [heap EXCEPT ![control].value = value]
    /\ ret' = Call("setValue", "", "", FidUndefined, Void)
    /\ UNCHANGED <<METADATA, nextId>>

(* --------------------------- the specification ------------------------ *)

\* const METADATA: any = {}
Start ==
    /\ METADATA = [k \in Keys |-> [defined |-> FALSE, forms |-> <<>>]]
    /\ heap = [x \in {} |-> NewFormGroup]
    /\ nextId = 1
    /\ ret = Call("", "", "", FidUndefined, Void)

Init == Start /\ budget = MaxSteps

Next ==
    \/ \E t \in Types, fid \in FormIdInputs : FormGroupTarget(t, fid)
    \/ \E t \in Types, v \in SyncInputs, fid \in FormIdInputs :
           FormGroupValidators(t, v, fid)
    \/ \E t \in Types, a \in AsyncFns, fid \in FormIdInputs :
           FormGroupAsyncValidators(t, UserFn(a), fid)
    \/ \E t \in Types, p \in Fields, v \in SyncInputs, fid \in FormIdInputs :
           FormControlTarget(t, p, v, fid)
    \/ \E t \in Types, p \in Fields, a \in AsyncFns, fid \in FormIdInputs :
           FormControlAsyncValidators(t, p, UserFn(a), fid)
    \/ \E t \in Types, p \in Fields, s \in SourceTypes, sid \in SourceIdInputs,
          fid \in FormIdInputs : NestedFormGroup(t, p, s, sid, fid)
    \/ \E t \in Types, fid \in LookupIdInputs : toFormGroup(t, fid)
    \/ \E t \in Types, ids \in LookupListInputs : toFormGroups(t, ids)

Spec == Init /\ [][Next]_vars

\* Longer runs over the smaller input sets: registering a source, nesting
\* it and annotating the host field again takes three calls.
InitDeep == Start /\ budget = DeepSteps

NextDeep ==
    \/ \E t \in DeepTypes, fid \in DeepFormIdInputs : FormGroupTarget(t, fid)
    \/ \E t \in DeepTypes, p \in DeepFields, v \in DeepSyncInputs,
          fid \in DeepFormIdInputs : FormControlTarget(t, p, v, fid)
    \/ \E t \in DeepTypes, p \in DeepFields, a \in AsyncFns,
          fid \in DeepFormIdInputs :
           FormControlAsyncValidators(t, p, UserFn(a), fid)
    \/ \E t \in DeepTypes, p \in DeepFields, s \in DeepTypes,
          sid \in SourceIdInputs, fid \in DeepFormIdInputs :
           NestedFormGroup(t, p, s, sid, fid)
    \/ \E t \in DeepTypes, fid \in DeepFormIdInputs : toFormGroup(t, fid)

SpecDeep == InitDeep /\ [][NextDeep]_vars

\* The field-level decorators applied to both properties of the same-text
\* classes, with the user typing into the controls in between.
InitField == Start /\ budget = FieldSteps

NextField ==
    \/ \E t \in FieldTypes, p \in AllFields, v \in SyncInputs,
          fid \in FieldFormIdInputs : FormControlTarget(t, p, v, fid)
    \/ \E t \in FieldTypes, p \in AllFields, a \in AsyncFns,
          fid \in FieldFormIdInputs :
           FormControlAsyncValidators(t, p, UserFn(a), fid)
    \/ \E c \in 1..(nextId - 1), x \in TypedValues : setValue(c, x)

SpecField == InitField /\ [][NextField]_vars

\* Nesting: the trees of B registered and given validators, nested in the
\* trees of A1 and B, the host field annotated again.  The class-level
\* decorators are applied to the source class alone, so a host tree of A1
\* comes to be by a field-level decorator.
InitNest == Start /\ budget = NestSteps

NextNest ==
    \/ \E t \in NestSources, fid \in NestFormIdInputs : FormGroupTarget(t, fid)
    \/ \E t \in NestSources, v \in NestSyncInputs, fid \in NestFormIdInputs :
           FormGroupValidators(t, v, fid)
    \/ \E t \in NestTypes, p \in Fields, v \in NestSyncInputs,
          fid \in NestFormIdInputs : FormControlTarget(t, p, v, fid)
    \/ \E t \in NestTypes, p \in Fields, s \in NestSources,
          sid \in NestSourceIdInputs, fid \in NestFormIdInputs :
           NestedFormGroup(t, p, s, sid, fid)

SpecNest == InitNest /\ [][NextNest]_vars

\* The class-level decorators alone, applied again and again.
InitClass == Start /\ budget = ClassSteps

NextClass ==
    \/ \E t \in ClassTypes, fid \in ClassFormIdInputs : FormGroupTarget(t, fid)
    \/ \E t \in ClassTypes, v \in SyncInputs, fid \in ClassFormIdInputs :
           FormGroupValidators(t, v, fid)
    \/ \E t \in ClassTypes, a \in ClassAsyncFns, fid \in ClassFormIdInputs :
           FormGroupAsyncValidators(t, UserFn(a), fid)

SpecClass == InitClass /\ [][NextClass]_vars

\* The decorators and toFormGroup given the empty list and class names as
\* form ids.
InitNames == Start /\ budget = NameSteps

NextNames ==
    \/ \E t \in NameTypes, fid \in NameFormIdInputs : FormGroupTarget(t, fid)
    \/ \E t \in NameTypes, v \in NameSyncInputs, fid \in NameFormIdInputs :
           FormGroupValidators(t, v, fid)
    \/ \E t \in NameTypes, a \in AsyncFns, fid \in NameFormIdInputs :
           FormGroupAsyncValidators(t, UserFn(a), fid)
    \/ \E t \in NameTypes, p \in Fields, v \in NameSyncInputs,
          fid \in NameFormIdInputs : FormControlTarget(t, p, v, fid)
    \/ \E t \in NameTypes, p \in Fields, a \in AsyncFns,
          fid \in NameFormIdInputs :
           FormControlAsyncValidators(t, p, UserFn(a), fid)
    \/ \E t \in NameTypes, p \in Fields, s \in NestSources,
          fid \in NameFormIdInputs :
           NestedFormGroup(t, p, s, FidUndefined, fid)
    \/ \E t \in NameTypes, fid \in NameLookupIdInputs : toFormGroup(t, fid)

SpecNames == InitNames /\ [][NextNames]_vars

(* ---------------------- vocabulary of the properties ------------------ *)

\* the form names in use: the class names and the form name "v"
FormNames == {NameOf(t) : t \in Types} \cup {"v"}

\* the form groups of a heap
Groups(h) == {g \in DOMAIN h : h[g].kind = "group"}

\* the tree registered for (type, form name f); Undefined when there is none
TreeOf(m, type, f) ==
    IF m[KeyOf(type)].defined THEN Lookup(m, KeyOf(type), f) ELSE Undefined

\* every registered tree
Registered(m) ==
    UNION {{m[k].forms[i].fg : i \in 1..Len(m[k].forms)} : k \in Keys}

\* the form names a form id given to a decorator names: the default form,
\* which goes by the type's name, when it is omitted; else the names given,
\* DEFAULT_GROUP standing for the default form
NamesOf(type, formId) ==
    IF formId.tag = "undefined" THEN {NameOf(type)}
    ELSE {IF formId.val[i] = DEFAULT_GROUP THEN NameOf(type) ELSE formId.val[i] :
              i \in 1..Len(formId.val)}

\* the trees a decorator applied to type with formId names, after the call
Targets(type, formId) ==
    {TreeOf(METADATA', type, f) : f \in NamesOf(type, formId)}

\* the one form name a source form id of NestedFormGroup stands for
SourceName(sourceType, sourceFormId) ==
    CHOOSE f \in NamesOf(sourceType, sourceFormId) : TRUE

\* the user's functions the asynchronous validators of an object run
Carried(obj) == UNION {fn.atoms : fn \in obj.asyncRaw.fns}

\* the value toFormGroup(type, formId) returns, Undefined when it throws
Returned(m, type, formId) ==
    LET r == toFormGroupValue(m, type, formId)
    IN IF r.kind = "one" THEN r.val[1] ELSE Undefined

\* the last call was op
Called(op) == ret'.op = op

(* -------------------------------- C1 ---------------------------------- *)

\* NestedFormGroup(s, sid), sid among sids, applied to a field of a type for
\* some host forms, with the source registered and the field not yet present
\* in a host: that host's field is the source tree afterwards.
NestInstalls(source(_, _), sids) ==
    Called("NestedFormGroup") =>
        \A s \in Types, sid \in sids :
            NestedFormGroup(ret'.type, ret'.prop, s, sid, ret'.formId) =>
                \A hv \in NamesOf(ret'.type, ret'.formId) :
                    LET src == TreeOf(METADATA, s, SourceName(s, sid))
                        before == TreeOf(METADATA, ret'.type, hv)
                    IN (/\ src # Undefined
                        /\ \/ before = Undefined
                           \/ heap[before].controls[ret'.prop] = Undefined)
                       => heap'[TreeOf(METADATA', ret'.type, hv)].controls[ret'.prop]
                              = source(s, sid)

\* the tree toFormGroup(s, sid) returns after the call
SourceByAccessor(s, sid) == Returned(METADATA', s, sid)

\* the tree registered for (s, sid), sid omitted or DEFAULT_GROUP standing
\* for the default form
SourceByRegistry(s, sid) == TreeOf(METADATA', s, SourceName(s, sid))

\* a call that keeps every tree nested in another tree where it is
NestedStays ==
    \A g \in Groups(heap), p \in AllFields :
        (heap[g].controls[p] \in Groups(heap) \ {g})
            => heap'[g].controls[p] = heap[g].controls[p]

\* a call that takes a nested tree out of field p of g is a FormControlTarget
\* applied to p for a form whose tree is g
NestedStaysUnlessTargeted ==
    \A g \in Groups(heap), p \in AllFields :
        (/\ heap[g].controls[p] \in Groups(heap)
         /\ heap'[g].controls[p] # heap[g].controls[p])
            => /\ Called("FormControlTarget")
               /\ ret'.prop = p
               /\ g \in Targets(ret'.type, ret'.formId)

\* C1 as stated: after NestedFormGroup(S, sv) is applied to field f of H for
\* host form hv, with (S, sv) registered (sv a form name, or omitted for the
\* default form) and f not yet present, toFormGroup(H, hv).get(f) is the
\* tree toFormGroup(S, sv) returns, and it stays that tree on every later
\* lookup.
C1_NestedOnEveryLaterLookup ==
    [][/\ NestInstalls(SourceByAccessor, {FidUndefined, FidString("v")})
       /\ NestedStays]_vars

\* C1 as amended: the host field is the tree registered for (S, sv), sv
\* omitted or DEFAULT_GROUP meaning S's default form, and it stays that tree
\* until a FormControlTarget is applied to that field for that host form.
C1_NestedUntilTargeted ==
    [][/\ NestInstalls(SourceByRegistry, SourceIdInputs)
       /\ NestedStaysUnlessTargeted]_vars

\* C1 witness: NestedFormGroup(A1) was applied to f of B; f of B's default
\* tree holds A's default tree, which was registered before and is another
\* object, and calls are still to come.
C1_Witness ==
    /\ ret.op = "NestedFormGroup" /\ ret.type = "B" /\ ret.prop = "f"
    /\ TreeOf(METADATA, "B", "B") # Undefined
    /\ TreeOf(METADATA, "A1", "A") # Undefined
    /\ TreeOf(METADATA, "A1", "A") < TreeOf(METADATA, "B", "B")
    /\ heap[TreeOf(METADATA, "B", "B")].controls["f"] = TreeOf(METADATA, "A1", "A")
    /\ budget > 0

(* -------------------------------- C2 ---------------------------------- *)

\* two forms of one type with different names are different objects
DistinctVariants ==
    \A t \in Types, a \in FormNames, b \in FormNames :
        (/\ a # b
         /\ TreeOf(METADATA, t, a) # Undefined
         /\ TreeOf(METADATA, t, b) # Undefined)
            => TreeOf(METADATA, t, a) # TreeOf(METADATA, t, b)

\* a field that holds the tree of a named form of a type does not hold the
\* type's default tree
NestedNamedIsNotDefault ==
    \A g \in Groups(heap), p \in AllFields, s \in Types, sv \in FormNames :
        (/\ sv # NameOf(s)
         /\ heap[g].controls[p] # Undefined
         /\ heap[g].controls[p] = TreeOf(METADATA, s, sv))
            => heap[g].controls[p] # TreeOf(METADATA, s, NameOf(s))

\* a field that is present never comes to hold another registered tree, and
\* a registered tree stays registered under its name
FieldNeverRebound ==
    /\ \A g \in Groups(heap), p \in AllFields :
           heap[g].controls[p] # Undefined
               => \/ heap'[g].controls[p] = heap[g].controls[p]
                  \/ heap'[g].controls[p] \notin Registered(METADATA')
    /\ \A t \in Types, a \in FormNames :
           TreeOf(METADATA, t, a) # Undefined
               => TreeOf(METADATA', t, a) = TreeOf(METADATA, t, a)

\* C2: two variants of the same type whose normalized names differ are always
\* distinct tree objects; a host field under which the named variant (S, sv)
\* was nested is never S's default tree.
C2_DistinctVariants ==
    /\ [](DistinctVariants /\ NestedNamedIsNotDefault)
    /\ [][FieldNeverRebound]_vars

\* C2 witness: A has a default tree and a tree named "v", and field f of B's
\* default tree holds the tree named "v".
C2_Witness ==
    /\ TreeOf(METADATA, "A1", "A") # Undefined
    /\ TreeOf(METADATA, "A1", "v") # Undefined
    /\ TreeOf(METADATA, "B", "B") # Undefined
    /\ heap[TreeOf(METADATA, "B", "B")].controls["f"] = TreeOf(METADATA, "A1", "v")

(* -------------------------------- C3 ---------------------------------- *)

\* the class-level validators of every tree the call did not name are what
\* they were
OtherTreesKeepValidators ==
    \A g \in Groups(heap) \ Targets(ret'.type, ret'.formId) :
        /\ heap'[g].validators = heap[g].validators
        /\ heap'[g].asyncRaw = heap[g].asyncRaw

\* C3: a synchronous or asynchronous validator added by FormGroupValidators /
\* FormGroupAsyncValidators for some forms of type T is present on the tree
\* of every form named and is added to no other tree: the default tree and
\* the other variants the annotation did not name keep the validators they
\* had.
C3_ClassValidatorsIsolated ==
    [][/\ Called("FormGroupValidators") =>
              \A v \in SyncInputs :
                  FormGroupValidators(ret'.type, v, ret'.formId) =>
                      /\ \A g \in Targets(ret'.type, ret'.formId) :
                             v \subseteq heap'[g].validators
                      /\ OtherTreesKeepValidators
       /\ Called("FormGroupAsyncValidators") =>
              \A a \in AsyncFns :
                  FormGroupAsyncValidators(ret'.type, UserFn(a), ret'.formId) =>
                      /\ \A g \in Targets(ret'.type, ret'.formId) :
                             UserFn(a) \in heap'[g].asyncRaw.fns
                      /\ OtherTreesKeepValidators]_vars

\* C3 witness: FormGroupValidators(required, "v") was applied to A1, whose
\* default tree existed before; the tree of "v" has the validator and the
\* default tree has none.
C3_Witness ==
    /\ ret.op = "FormGroupValidators" /\ ret.type = "A1"
    /\ ret.formId = FidString("v")
    /\ TreeOf(METADATA, "A1", "A") # Undefined
    /\ TreeOf(METADATA, "A1", "A") < TreeOf(METADATA, "A1", "v")
    /\ heap[TreeOf(METADATA, "A1", "v")].validators = {"required"}
    /\ heap[TreeOf(METADATA, "A1", "A")].validators = {}

(* -------------------------------- C4 ---------------------------------- *)

\* the leaf controls of the trees in gs are the objects they were, unchanged
LeavesUntouched(gs) ==
    \A g \in gs :
        /\ heap'[g].controls = heap[g].controls
        /\ \A p \in AllFields :
               LET c == heap[g].controls[p]
               IN (c # Undefined /\ heap[c].kind = "control") => heap'[c] = heap[c]

\* C4: FormControlTarget(V) applied to a field for some forms of a type
\* leaves in each named form's tree a leaf whose synchronous validators are
\* exactly V, and leaves the leaves of every other tree as they were; so a
\* field annotated with A for one variant and with B for another carries A
\* and not B in the first tree, B and not A in the second.
C4_FieldValidatorsIsolated ==
    [][Called("FormControlTarget") =>
           \A v \in SyncInputs :
               FormControlTarget(ret'.type, ret'.prop, v, ret'.formId) =>
                   /\ \A g \in Targets(ret'.type, ret'.formId) :
                          LET leaf == heap'[g].controls[ret'.prop]
                          IN /\ leaf # Undefined
                             /\ heap'[leaf].kind = "control"
                             /\ heap'[leaf].validators = v
                   /\ LeavesUntouched(Groups(heap) \ Targets(ret'.type, ret'.formId))]_vars

\* C4 witness: field f of A1 was annotated with required for the default
\* form and then with minLength5 for "v"; each leaf carries its own.
C4_Witness ==
    /\ ret.op = "FormControlTarget" /\ ret.formId = FidString("v")
    /\ TreeOf(METADATA, "A1", "A") # Undefined
    /\ TreeOf(METADATA, "A1", "v") # Undefined
    /\ LET d == heap[TreeOf(METADATA, "A1", "A")].controls["f"]
           w == heap[TreeOf(METADATA, "A1", "v")].controls["f"]
       IN /\ d # Undefined /\ w # Undefined
          /\ heap[d].validators = {"required"}
          /\ heap[w].validators = {"minLength5"}

(* -------------------------------- C5 ---------------------------------- *)

ClassDecorators ==
    {"FormGroupTarget", "FormGroupValidators", "FormGroupAsyncValidators"}

FieldDecorators ==
    {"FormControlTarget", "FormControlAsyncValidators", "NestedFormGroup"}

\* the field names of the tree of (type, form name f); none without a tree
FieldNames(m, h, type, f) ==
    IF TreeOf(m, type, f) = Undefined THEN {}
    ELSE {p \in AllFields : h[TreeOf(m, type, f)].controls[p] # Undefined}

\* the last call was a field-level decorator applied to a property of type t
\* naming form f, NestedFormGroup counting when its source is registered
AnnotatesField(t, f) ==
    /\ ret'.op \in FieldDecorators
    /\ ret'.type = t
    /\ f \in NamesOf(t, ret'.formId)
    /\ Called("NestedFormGroup") =>
           \E s \in Types, sid \in SourceIdInputs :
               /\ NestedFormGroup(t, ret'.prop, s, sid, ret'.formId)
               /\ TreeOf(METADATA', s, SourceName(s, sid)) # Undefined

\* C6: the field names of the tree of (T, v) are exactly the fields to which
\* a field-level annotation of T naming v has been applied: a call adds the
\* field it annotates to the trees of the forms it names, and the field
\* names of every other (T, v) stay what they were.
C6_FieldsAreTheAnnotated ==
    [][\A t \in Types, f \in FormNames :
           FieldNames(METADATA', heap', t, f) =
               IF AnnotatesField(t, f)
               THEN FieldNames(METADATA, heap, t, f) \cup {ret'.prop}
               ELSE FieldNames(METADATA, heap, t, f)]_vars

(* -------------------------------- C7 ---------------------------------- *)

\* the number of trees toFormGroups(t) returns for the empty list
AllFormsCount(m, t) ==
    IF toFormGroupsValue(m, t, <<>>).kind = "map"
    THEN Len(toFormGroupsValue(m, t, <<>>).val)
    ELSE 0

\* C7: toFormGroups(T) with no names returns one tree per variant name T has
\* been annotated with: an annotation of T adds one tree for each form it
\* names that T did not have, and no other call changes the number.
C7_OneTreePerNamedForm ==
    [][\A t \in Types :
           AllFormsCount(METADATA', t) =
               AllFormsCount(METADATA, t) +
                   IF ret'.op \in ClassDecorators \cup FieldDecorators /\ ret'.type = t
                   THEN Cardinality({f \in NamesOf(t, ret'.formId) :
                                         TreeOf(METADATA, t, f) = Undefined})
                   ELSE 0]_vars

(* -------------------------------- C8 ---------------------------------- *)

\* C8: DEFAULT_GROUP given to the accessors refers to the default tree:
\* toFormGroup(T, DEFAULT_GROUP) returns what toFormGroup(T) returns, and
\* toFormGroups(T, [DEFAULT_GROUP, "v"]) returns the default tree of T
\* followed by the tree of (T, "v").
C8_SentinelReadsDefault ==
    [][/\ (Called("toFormGroup") /\ ret'.formId = FidString(DEFAULT_GROUP))
              => /\ ret'.kind = toFormGroupValue(METADATA, ret'.type, FidUndefined).kind
                 /\ ret'.val = toFormGroupValue(METADATA, ret'.type, FidUndefined).val
       /\ (/\ Called("toFormGroups")
           /\ ret'.formId = FidArray(<<DEFAULT_GROUP, "v">>)
           /\ ret'.kind = "list")
              => ret'.val = << TreeOf(METADATA, ret'.type, NameOf(ret'.type)),
                               TreeOf(METADATA, ret'.type, "v") >>]_vars

(* -------------------------------- C9 ---------------------------------- *)

\* the form id names the default form: it is omitted or lists DEFAULT_GROUP
NamesDefault(formId) ==
    \/ formId.tag = "undefined"
    \/ formId.tag = "array" /\ \E i \in 1..Len(formId.val) : formId.val[i] = DEFAULT_GROUP

\* the tree toFormGroup(type) returns after the call
DefaultTree(type) == Returned(METADATA', type, FidUndefined)

\* the child of the default tree under the annotated property, after the call
DefaultChild == heap'[DefaultTree(ret'.type)].controls[ret'.prop]

\* C9: every annotation applied to T with no variant name or with a list
\* holding DEFAULT_GROUP acts on the tree toFormGroup(T) returns: that tree
\* exists after the call and shows the annotation's effect.
C9_DefaultIsTheTypeNamedTree ==
    [][(ret'.op \in ClassDecorators \cup FieldDecorators /\ NamesDefault(ret'.formId)) =>
           /\ DefaultTree(ret'.type) \in Groups(heap')
           /\ Called("FormGroupValidators") =>
                  \A v \in SyncInputs :
                      FormGroupValidators(ret'.type, v, ret'.formId)
                          => v \subseteq heap'[DefaultTree(ret'.type)].validators
           /\ Called("FormGroupAsyncValidators") =>
                  \A a \in AsyncFns :
                      FormGroupAsyncValidators(ret'.type, UserFn(a), ret'.formId)
                          => UserFn(a) \in heap'[DefaultTree(ret'.type)].asyncRaw.fns
           /\ Called("FormControlTarget") =>
                  \A v \in SyncInputs :
                      FormControlTarget(ret'.type, ret'.prop, v, ret'.formId)
                          => /\ DefaultChild \in DOMAIN heap' \ DOMAIN heap
                             /\ heap'[DefaultChild].validators = v
           /\ Called("FormControlAsyncValidators") =>
                  \A a \in AsyncFns :
                      FormControlAsyncValidators(ret'.type, ret'.prop, UserFn(a),
                                                 ret'.formId)
                          => /\ DefaultChild \in DOMAIN heap'
                             /\ a \in Carried(heap'[DefaultChild])
           /\ Called("NestedFormGroup") =>
                  \A s \in Types, sid \in SourceIdInputs :
                      (/\ NestedFormGroup(ret'.type, ret'.prop, s, sid, ret'.formId)
                       /\ TreeOf(METADATA, s, SourceName(s, sid)) # Undefined
                       /\ ret'.prop \notin FieldNames(METADATA, heap, ret'.type,
                                                      NameOf(ret'.type)))
                          => DefaultChild = TreeOf(METADATA, s, SourceName(s, sid))]_vars

\* C9 witness: FormControlTarget(required, [DEFAULT_GROUP, "v"]) was applied
\* to f of B, and the tree toFormGroup(B) returns has the leaf with required.
C9_Witness ==
    /\ ret.op = "FormControlTarget" /\ ret.type = "B"
    /\ ret.formId = FidArray(<<DEFAULT_GROUP, "v">>)
    /\ Returned(METADATA, "B", FidUndefined) # Undefined
    /\ heap[Returned(METADATA, "B", FidUndefined)].controls["f"] # Undefined
    /\ heap[heap[Returned(METADATA, "B", FidUndefined)].controls["f"]].validators
           = {"required"}

(* -------------------------------- C10 --------------------------------- *)

\* C10: toFormGroup(T, v) for a pair (T, v) that is not registered returns
\* undefined and raises no error, whether T has other registered variants or
\* has never been annotated.
C10_UnregisteredIsUndefined ==
    [][(/\ Called("toFormGroup")
        /\ \A f \in NamesOf(ret'.type, ret'.formId) :
               TreeOf(METADATA, ret'.type, f) = Undefined)
           => /\ ret'.kind = "one"
              /\ ret'.val = <<Undefined>>]_vars

(* -------------------------------- C11 --------------------------------- *)

\* the child under propName of the tree of (type, form name f); Undefined
\* without a tree or without the field
FieldOf(m, h, type, f, propName) ==
    IF TreeOf(m, type, f) = Undefined THEN Undefined
    ELSE h[TreeOf(m, type, f)].controls[propName]

\* C11: NestedFormGroup whose source (sourceType, sourceFormId) is not
\* registered is skipped in silence: the call raises no error and every host
\* tree is left without a newly installed field, also when the source type
\* has no registered form at all.
C11_UnregisteredSourceSkipped ==
    [][Called("NestedFormGroup") =>
           \A s \in Types, sid \in SourceIdInputs :
               (/\ NestedFormGroup(ret'.type, ret'.prop, s, sid, ret'.formId)
                /\ TreeOf(METADATA, s, SourceName(s, sid)) = Undefined
                /\ KeyOf(s) # KeyOf(ret'.type))
                   => /\ ret'.kind = "void"
                      /\ \A f \in NamesOf(ret'.type, ret'.formId) :
                             FieldOf(METADATA', heap', ret'.type, f, ret'.prop) =
                                 FieldOf(METADATA, heap, ret'.type, f, ret'.prop)]_vars

(* -------------------------------- C12 --------------------------------- *)

\* the tree g shows the effect of the last call, a decorator
ShowsEffect(g) ==
    /\ Called("FormGroupValidators") =>
           \A v \in SyncInputs :
               FormGroupValidators(ret'.type, v, ret'.formId)
                   => v \subseteq heap'[g].validators
    /\ Called("FormGroupAsyncValidators") =>
           \A a \in AsyncFns :
               FormGroupAsyncValidators(ret'.type, UserFn(a), ret'.formId)
                   => UserFn(a) \in heap'[g].asyncRaw.fns
    /\ Called("FormControlTarget") =>
           \A v \in SyncInputs :
               FormControlTarget(ret'.type, ret'.prop, v, ret'.formId)
                   => /\ heap'[g].controls[ret'.prop] \in DOMAIN heap' \ DOMAIN heap
                      /\ heap'[heap'[g].controls[ret'.prop]].validators = v
    /\ Called("FormControlAsyncValidators") =>
           \A a \in AsyncFns :
               FormControlAsyncValidators(ret'.type, ret'.prop, UserFn(a), ret'.formId)
                   => /\ heap'[g].controls[ret'.prop] \in DOMAIN heap'
                      /\ a \in Carried(heap'[heap'[g].controls[ret'.prop]])
    /\ Called("NestedFormGroup") =>
           \A s \in Types, sid \in SourceIdInputs :
               (/\ NestedFormGroup(ret'.type, ret'.prop, s, sid, ret'.formId)
                /\ TreeOf(METADATA, s, SourceName(s, sid)) # Undefined
                /\ g \in DOMAIN heap => heap[g].controls[ret'.prop] = Undefined)
                   => heap'[g].controls[ret'.prop] =
                          TreeOf(METADATA, s, SourceName(s, sid))

EntryKept(type, f) ==
    TreeOf(METADATA, type, f) # Undefined =>
        /\ TreeOf(METADATA', type, f) = TreeOf(METADATA, type, f)
        /\ TreeOf(METADATA, type, f) \in Groups(heap')

\* C13: once the tree of (type, form) has been created the registry entry is
\* never replaced by another tree: every later call leaves the entry what it
\* was, a later annotation naming the form mutates that very object, and a
\* later toFormGroup for the form returns it.
C13_EntryNeverReplaced ==
    [][/\ \A t \in Types, f \in FormNames : EntryKept(t, f)
       /\ ret'.op \in ClassDecorators \cup FieldDecorators =>
              \A f \in NamesOf(ret'.type, ret'.formId) :
                  TreeOf(METADATA, ret'.type, f) # Undefined
                      => ShowsEffect(TreeOf(METADATA, ret'.type, f))
       /\ (Called("toFormGroup") /\ ret'.formId \in {FidUndefined, FidString("v")}) =>
              \A f \in NamesOf(ret'.type, ret'.formId) :
                  TreeOf(METADATA, ret'.type, f) # Undefined
                      => ret'.val = <<TreeOf(METADATA, ret'.type, f)>>]_vars

\* C13 witness: the first call created the default tree of A1 (object 1) and
\* its leaf f (object 2), the second replaced the leaf (object 3) in that
\* tree, and the third, toFormGroup(A1), returned object 1.
C13_Witness ==
    /\ ret.op = "toFormGroup" /\ ret.type = "A1" /\ ret.formId = FidUndefined
    /\ ret.val = <<1>>
    /\ TreeOf(METADATA, "A1", "A") = 1
    /\ heap[1].controls["f"] = 3

(* -------------------------------- C14 --------------------------------- *)

\* the registry and the heap after the last call
After == Store(METADATA', heap', nextId')

\* C14: initialization is idempotent.  FormGroupTarget leaves every object
\* that exists (its fields and validators) and every registry entry that
\* exists as it was; when every form it names has a tree it changes nothing;
\* and applied once more after itself it gives the registry it gave.
C14_InitializationIdempotent ==
    [][Called("FormGroupTarget") =>
           /\ \A g \in DOMAIN heap : g \in DOMAIN heap' /\ heap'[g] = heap[g]
           /\ \A t \in Types, f \in FormNames :
                  TreeOf(METADATA, t, f) # Undefined =>
                      TreeOf(METADATA', t, f) = TreeOf(METADATA, t, f)
           /\ (\A f \in NamesOf(ret'.type, ret'.formId) :
                   TreeOf(METADATA, ret'.type, f) # Undefined)
                  => UNCHANGED <<METADATA, heap, nextId>>
           /\ initializeMetadata(After, ret'.type, ret'.formId) = After]_vars

\* C14 witness: FormGroupTarget() was applied to B whose default tree existed
\* and held the validator required; the tree is still the only object.
C14_Witness ==
    /\ ret.op = "FormGroupTarget" /\ ret.type = "B" /\ ret.formId = FidUndefined
    /\ TreeOf(METADATA, "B", "B") = 1
    /\ heap[1].validators = {"required"}
    /\ nextId = 2

(* -------------------------------- C15 --------------------------------- *)

\* the form id toFormGroup is given to read the form named f of type
AccessorId(type, f) == IF f = NameOf(type) THEN FidUndefined ELSE FidString(f)

\* C15: every annotation that names a (type, form) pair as its target, at
\* class level, at field level or as a host of NestedFormGroup, creates the
\* pair's tree when it is absent: after the call toFormGroup(type, form)
\* returns a tree for every form named, FormGroupTarget applied or not.
C15_AnyAnnotationCreates ==
    [][ret'.op \in ClassDecorators \cup FieldDecorators =>
           \A f \in NamesOf(ret'.type, ret'.formId) :
               /\ toFormGroupValue(METADATA', ret'.type, AccessorId(ret'.type, f)).kind = "one"
               /\ Returned(METADATA', ret'.type, AccessorId(ret'.type, f))
                      \in Groups(heap')]_vars

\* C15 witness: FormControlTarget on f of B for the form "v" was the first
\* call, FormGroupTarget never applied, and toFormGroup(B, "v") then returned
\* the tree it created, which holds the leaf.
C15_Witness ==
    /\ ret.op = "toFormGroup" /\ ret.type = "B" /\ ret.formId = FidString("v")
    /\ budget = MaxSteps - 2
    /\ ret.kind = "one" /\ ret.val = <<1>>
    /\ heap[1].kind = "group" /\ heap[1].controls["f"] = 2
    /\ heap[2].kind = "control"

(* -------------------------------- C16 --------------------------------- *)

\* C16: for a non-empty list of names toFormGroups(T, names) raises nothing
\* and returns a list as long as names whose i-th element is the tree
\* registered for (T, names[i]), absent when there is none.
C16_NamedListInOrder ==
    [][(Called("toFormGroups") /\ Len(ret'.formId.val) > 0) =>
           /\ ret'.kind = "list"
           /\ Len(ret'.val) = Len(ret'.formId.val)
           /\ \A i \in 1..Len(ret'.formId.val) :
                  ret'.val[i] = TreeOf(METADATA, ret'.type, ret'.formId.val[i])]_vars

(* -------------------------------- C17 --------------------------------- *)

\* what toFormGroup(type, formId) shows: the tree returned, its record and
\* the records of its children
Shown(m, h, type, formId) ==
    LET g == Returned(m, type, formId)
    IN IF g = Undefined THEN <<Undefined>>
       ELSE <<g, h[g],
              [p \in AllFields |->
                   IF h[g].controls[p] = Undefined THEN <<>>
                   ELSE <<h[h[g].controls[p]]>>]>>

\* C17: the registry entries of distinct model classes are disjoint, the
\* classes told apart by the class object: an annotation applied to a class
\* neither creates nor changes a tree toFormGroup returns for another class.
C17_TypesDisjoint ==
    [][ret'.op \in ClassDecorators \cup FieldDecorators =>
           \A other \in Types \ {ret'.type}, v \in {FidUndefined, FidString("v")} :
               Shown(METADATA', heap', other, v) = Shown(METADATA, heap, other, v)]_vars

(* -------------------------------- C18 --------------------------------- *)

\* the leaf under ret'.prop in the tree of (ret'.type, f) before the call;
\* Undefined when the field is absent or is a nested form group
LeafBefore(f) ==
    LET c == FieldOf(METADATA, heap, ret'.type, f, ret'.prop)
    IN IF c # Undefined /\ heap[c].kind = "control" THEN c ELSE Undefined

\* C18: FormControlAsyncValidators applied to a field that is a leaf of a
\* targeted tree mutates the leaf in place: the tree's field is the same
\* object as before, with the value and the synchronous validators it had,
\* and the asynchronous validator is added to those it had.
C18_AsyncAddedInPlace ==
    [][Called("FormControlAsyncValidators") =>
           \A f \in NamesOf(ret'.type, ret'.formId) :
               LeafBefore(f) # Undefined =>
                   /\ FieldOf(METADATA', heap', ret'.type, f, ret'.prop) = LeafBefore(f)
                   /\ heap'[LeafBefore(f)].kind = "control"
                   /\ heap'[LeafBefore(f)].value = heap[LeafBefore(f)].value
                   /\ heap'[LeafBefore(f)].validators = heap[LeafBefore(f)].validators
                   /\ heap[LeafBefore(f)].asyncRaw.fns \subseteq
                          heap'[LeafBefore(f)].asyncRaw.fns
                   /\ \A a \in AsyncFns :
                          FormControlAsyncValidators(ret'.type, ret'.prop, UserFn(a),
                                                     ret'.formId)
                              => UserFn(a) \in heap'[LeafBefore(f)].asyncRaw.fns]_vars

\* C18 witness: the leaf g of the default tree of A, created by
\* FormControlTarget with required and typed into since, got the
\* asynchronous validator P by FormControlAsyncValidators and is the same
\* object with the typed value and required.
C18_Witness ==
    /\ ret.op = "FormControlAsyncValidators" /\ ret.prop = "g"
    /\ ret.formId = FidUndefined
    /\ FieldOf(METADATA, heap, "A1", "A", "g") = 2
    /\ nextId = 3
    /\ heap[2].value = <<"typed", "text">>
    /\ heap[2].validators = {"required"}
    /\ heap[2].asyncRaw = [isArray |-> TRUE, fns |-> {UserFn("P")}]

(* -------------------------------- C19 --------------------------------- *)

\* the child under ret'.prop in the tree of (ret'.type, f) after the call
ChildAfter(f) == FieldOf(METADATA', heap', ret'.type, f, ret'.prop)

\* C19: FormControlTarget applied to a field that is a leaf of a targeted
\* tree replaces the leaf by a new leaf: its synchronous validators are
\* exactly those of this annotation, its value is the value the replaced
\* leaf had, and the tree has the field names it had.
C19_LeafReplaced ==
    [][Called("FormControlTarget") =>
           \A f \in NamesOf(ret'.type, ret'.formId) :
               LeafBefore(f) # Undefined =>
                   /\ ChildAfter(f) \in DOMAIN heap' \ DOMAIN heap
                   /\ heap'[ChildAfter(f)].kind = "control"
                   /\ heap'[ChildAfter(f)].value = heap[LeafBefore(f)].value
                   /\ \A v \in SyncInputs :
                          FormControlTarget(ret'.type, ret'.prop, v, ret'.formId)
                              => heap'[ChildAfter(f)].validators = v
                   /\ FieldNames(METADATA', heap', ret'.type, f) =
                          FieldNames(METADATA, heap, ret'.type, f)]_vars

\* C19 witness: the leaf g of the default tree of A was created with
\* required (object 2), typed into, and replaced by FormControlTarget with
\* minLength5: the leaf is object 3, holds the typed value and minLength5
\* alone.
C19_Witness ==
    /\ ret.op = "FormControlTarget" /\ ret.prop = "g" /\ ret.formId = FidUndefined
    /\ FieldOf(METADATA, heap, "A1", "A", "g") = 3
    /\ nextId = 4
    /\ heap[3].value = <<"typed", "text">>
    /\ heap[3].validators = {"minLength5"}
    /\ FieldNames(METADATA, heap, "A1", "A") = {"g"}

(* -------------------------------- C20 --------------------------------- *)

\* C20: FormControlTarget or FormControlAsyncValidators applied to a field
\* that a targeted tree lacks registers a new leaf whose value is the value
\* of the property on a newly constructed instance of the type, and so in
\* every targeted tree that lacks the field.
C20_NewLeafHasDefaultValue ==
    [][ret'.op \in {"FormControlTarget", "FormControlAsyncValidators"} =>
           \A f \in NamesOf(ret'.type, ret'.formId) :
               FieldOf(METADATA, heap, ret'.type, f, ret'.prop) = Undefined =>
                   /\ ChildAfter(f) \in DOMAIN heap' \ DOMAIN heap
                   /\ heap'[ChildAfter(f)].kind = "control"
                   /\ heap'[ChildAfter(f)].value = DefaultValue(ret'.type, ret'.prop)]_vars

\* C20 witness: the default tree of A had the leaf f, typed into;
\* FormControlAsyncValidators for the default form and the form "v" then
\* registered f in the new tree "v", with the default instance's value and
\* not the typed one.
C20_Witness ==
    /\ ret.op = "FormControlAsyncValidators" /\ ret.prop = "f"
    /\ ret.formId = FidArray(<<DEFAULT_GROUP, "v">>)
    /\ FieldOf(METADATA, heap, "A1", "A", "f") = 2
    /\ heap[2].value = <<"typed", "text">>
    /\ FieldOf(METADATA, heap, "A1", "v", "f") = 4
    /\ heap[4].value = DefaultValue("A1", "f")
    /\ "P" \in Carried(heap[4])

(* -------------------------------- C21 --------------------------------- *)

\* C21: NestedFormGroup with a registered source, a tree of another class,
\* installs the source tree under the field in every targeted host tree:
\* after the call the host's field is the source tree, whether the host had
\* a child under that name or not.
C21_NestedAlwaysInstalled ==
    [][Called("NestedFormGroup") =>
           \A s \in Types, sid \in SourceIdInputs :
               (/\ NestedFormGroup(ret'.type, ret'.prop, s, sid, ret'.formId)
                /\ KeyOf(s) # KeyOf(ret'.type)
                /\ TreeOf(METADATA, s, SourceName(s, sid)) # Undefined)
                   => \A f \in NamesOf(ret'.type, ret'.formId) :
                          ChildAfter(f) = TreeOf(METADATA, s, SourceName(s, sid))]_vars

(* -------------------------------- C22 --------------------------------- *)

\* every form group that is a child of a form group is a registered tree
\* itself, not a copy of one
NestedAreRegistered ==
    \A g \in Groups(heap), p \in AllFields :
        (heap[g].controls[p] # Undefined /\ heap[heap[g].controls[p]].kind = "group")
            => heap[g].controls[p] \in Registered(METADATA)

\* NestedFormGroup with a registered source, a tree of another class, puts
\* the one source tree under the field of every named host
AllHostsGetTheSource ==
    Called("NestedFormGroup") =>
        \A s \in Types, sid \in SourceIdInputs :
            (/\ NestedFormGroup(ret'.type, ret'.prop, s, sid, ret'.formId)
             /\ KeyOf(s) # KeyOf(ret'.type)
             /\ TreeOf(METADATA, s, SourceName(s, sid)) # Undefined)
                => \A f \in NamesOf(ret'.type, ret'.formId) :
                       ChildAfter(f) = TreeOf(METADATA', s, SourceName(s, sid))

\* an annotation that targets a tree nested in hosts is seen through the
\* field of every host: the field still is that tree and the tree shows the
\* effect (a host whose field the call itself re-targets set aside)
SeenThroughHosts ==
    ret'.op \in ClassDecorators \cup FieldDecorators =>
        \A g \in Groups(heap), p \in AllFields :
            (/\ heap[g].controls[p] # Undefined
             /\ heap[heap[g].controls[p]].kind = "group"
             /\ heap[g].controls[p] \in Targets(ret'.type, ret'.formId)
             /\ ~(Called("FormControlTarget") /\ ret'.prop = p
                    /\ g \in Targets(ret'.type, ret'.formId)))
                => /\ heap'[g].controls[p] = heap[g].controls[p]
                   /\ ShowsEffect(heap[g].controls[p])

\* C22: when NestedFormGroup names several hosts, the field of every host
\* holds the one source tree object, no copy, so what a later annotation
\* adds to the source form is seen through the nested field of every host.
C22_HostsShareTheSource ==
    /\ []NestedAreRegistered
    /\ [][AllHostsGetTheSource /\ SeenThroughHosts]_vars

(* -------------------------------- C23 --------------------------------- *)

\* NestedFormGroup whose source form is not registered, the source class
\* having an entry, is skipped: the field of every host is what it was
SkippedInstallsNothing ==
    Called("NestedFormGroup") =>
        \A s \in Types, sid \in SourceIdInputs :
            (/\ NestedFormGroup(ret'.type, ret'.prop, s, sid, ret'.formId)
             /\ METADATA[KeyOf(s)].defined
             /\ KeyOf(s) # KeyOf(ret'.type)
             /\ TreeOf(METADATA, s, SourceName(s, sid)) = Undefined)
                => /\ ret'.kind = "void"
                   /\ \A f \in NamesOf(ret'.type, ret'.formId) :
                          ChildAfter(f) =
                              FieldOf(METADATA, heap, ret'.type, f, ret'.prop)

\* a field a tree lacks stays absent until a field-level annotation is
\* applied to that field of that tree
AbsentUntilAnnotated ==
    \A g \in Groups(heap), p \in AllFields :
        (heap[g].controls[p] = Undefined /\ heap'[g].controls[p] # Undefined)
            => /\ ret'.op \in FieldDecorators
               /\ ret'.prop = p
               /\ g \in Targets(ret'.type, ret'.formId)

\* C23: nesting is not retroactive.  NestedFormGroup applied while its source
\* form is not registered installs nothing, and registering the source form
\* afterwards does not install the field either: the host field stays
\* absent until a nesting or field annotation is applied to it again.
C23_NestingNotRetroactive ==
    [][SkippedInstallsNothing /\ AbsentUntilAnnotated]_vars

\* C23 witness: B had its default tree (object 1); the default tree of A1
\* (object 2) came to be by a NestedFormGroup naming the form "v" of B, not
\* registered then, which was skipped; FormGroupTarget registered the form
\* "v" of B afterwards (object 3), and f of A1 is still absent.
C23_Witness ==
    /\ ret.op = "FormGroupTarget" /\ ret.type = "B"
    /\ ret.formId = FidArray(<<DEFAULT_GROUP, "v">>)
    /\ TreeOf(METADATA, "B", "B") = 1
    /\ TreeOf(METADATA, "A1", "A") = 2
    /\ TreeOf(METADATA, "B", "v") = 3
    /\ FieldOf(METADATA, heap, "A1", "A", "f") = Undefined

(* -------------------------------- C24 --------------------------------- *)

\* the class-level validators of the tree g in heap h, none for a tree that
\* does not exist yet
ClassSync(h, g) == IF g \in DOMAIN h THEN h[g].validators ELSE {}
ClassAsync(h, g) == IF g \in DOMAIN h THEN h[g].asyncRaw.fns ELSE {}

\* C24: class-level validators merge.  In a sequence of FormGroupValidators
\* and FormGroupAsyncValidators annotations each call adds its validators to
\* those the trees of the forms it names have, so that a tree holds the
\* union of what the annotations naming its form gave, and no call removes
\* a validator an earlier one added.
C24_ClassValidatorsMerge ==
    [][ret'.op \in ClassDecorators =>
           \A g \in Groups(heap') :
               /\ ClassSync(heap, g) \subseteq heap'[g].validators
               /\ ClassAsync(heap, g) \subseteq heap'[g].asyncRaw.fns
               /\ Called("FormGroupTarget") =>
                      /\ heap'[g].validators = ClassSync(heap, g)
                      /\ heap'[g].asyncRaw.fns = ClassAsync(heap, g)
               /\ Called("FormGroupValidators") =>
                      \A v \in SyncInputs :
                          FormGroupValidators(ret'.type, v, ret'.formId) =>
                              /\ heap'[g].validators =
                                     IF g \in Targets(ret'.type, ret'.formId)
                                     THEN ClassSync(heap, g) \cup v
                                     ELSE ClassSync(heap, g)
                              /\ heap'[g].asyncRaw.fns = ClassAsync(heap, g)
               /\ Called("FormGroupAsyncValidators") =>
                      \A a \in ClassAsyncFns :
                          FormGroupAsyncValidators(ret'.type, UserFn(a), ret'.formId) =>
                              /\ heap'[g].asyncRaw.fns =
                                     IF g \in Targets(ret'.type, ret'.formId)
                                     THEN ClassAsync(heap, g) \cup {UserFn(a)}
                                     ELSE ClassAsync(heap, g)
                              /\ heap'[g].validators = ClassSync(heap, g)]_vars

\* C24 witness: three annotations of B for its default form, required, the
\* asynchronous P and last minLength5: the tree holds all three.
C24_Witness ==
    /\ ret.op = "FormGroupValidators" /\ ret.type = "B" /\ ret.formId = FidUndefined
    /\ budget = 0
    /\ TreeOf(METADATA, "B", "B") = 1
    /\ heap[1].validators = {"required", "minLength5"}
    /\ heap[1].asyncRaw.fns = {UserFn("P")}

(* -------------------------------- C25 --------------------------------- *)

\* what a tree is made of in heap h: its own record (field names and
\* class-level validators) and the records of its leaves
Content(h, g) ==
    <<h[g],
      [p \in AllFields |->
           IF h[g].controls[p] # Undefined /\ h[h[g].controls[p]].kind = "control"
           THEN <<h[h[g].controls[p]]>>
           ELSE <<>>]>>

\* C25: the frame of an annotation.  An annotation applied to T with the
\* form list L leaves every tree other than the trees registered for (T, v),
\* v in the normalized L, as it was: same fields, same class-level
\* validators, same leaves with their validators and values; so also a tree
\* of another class that is nested in a targeted tree.
C25_OtherTreesUnchanged ==
    [][ret'.op \in ClassDecorators \cup FieldDecorators =>
           \A g \in Groups(heap) \ Targets(ret'.type, ret'.formId) :
               /\ g \in Groups(heap')
               /\ Content(heap', g) = Content(heap, g)]_vars

(* -------------------------------- C26 --------------------------------- *)

\* the forms a key had are the first forms it has after the call, by name
FormsKept(k) ==
    /\ Len(METADATA'[k].forms) >= Len(METADATA[k].forms)
    /\ \A i \in 1..Len(METADATA[k].forms) :
           METADATA'[k].forms[i].name = METADATA[k].forms[i].name

\* C26: the registry only grows.  Whatever the call, an annotation or an
\* accessor, every (type, form) entry that existed exists after it and every
\* field name a tree had it has after it; FormControlTarget's replacement
\* takes the name out and puts it back within the one call.
C26_RegistryOnlyGrows ==
    [][/\ \A k \in Keys :
              /\ METADATA[k].defined => METADATA'[k].defined
              /\ FormsKept(k)
       /\ \A t \in Types, f \in FormNames :
              /\ TreeOf(METADATA, t, f) # Undefined => TreeOf(METADATA', t, f) # Undefined
              /\ FieldNames(METADATA, heap, t, f) \subseteq
                     FieldNames(METADATA', heap', t, f)]_vars

\* C26 witness: A1 got its default tree (object 1) with the leaf f, then the
\* tree "v" (object 3) with the leaf f (object 4), and FormControlTarget
\* then replaced f of the default tree (object 5): both entries and both
\* fields are there.
C26_Witness ==
    /\ ret.op = "FormControlTarget" /\ ret.type = "A1" /\ ret.formId = FidUndefined
    /\ TreeOf(METADATA, "A1", "A") = 1
    /\ TreeOf(METADATA, "A1", "v") = 3
    /\ FieldOf(METADATA, heap, "A1", "A", "f") = 5
    /\ FieldOf(METADATA, heap, "A1", "v", "f") = 4

(* -------------------------------- C27 --------------------------------- *)

\* C27: an annotation given the empty list of form names targets no form:
\* it creates no tree for the type, the default one neither, changes no
\* object, and raises nothing.
C27_EmptyListTargetsNothing ==
    [][(ret'.op \in ClassDecorators \cup FieldDecorators /\ ret'.formId = FidArray(<<>>)) =>
           /\ ret'.kind = "void"
           /\ heap' = heap
           /\ nextId' = nextId
           /\ \A k \in Keys : METADATA'[k].forms = METADATA[k].forms
           /\ \A f \in FormNames :
                  TreeOf(METADATA', ret'.type, f) = TreeOf(METADATA, ret'.type, f)]_vars

\* C27 witness: FormControlTarget with the empty list was the first call, on
\* f of B: B has an entry in the registry, no form, and no object exists.
C27_Witness ==
    /\ ret.op = "FormControlTarget" /\ ret.type = "B" /\ ret.formId = FidArray(<<>>)
    /\ METADATA[KeyOf("B")].defined
    /\ METADATA[KeyOf("B")].forms = <<>>
    /\ nextId = 1

(* -------------------------------- C28 --------------------------------- *)

\* the form id that is the class name of the type
OwnName(type) == FidString(NameOf(type))

\* C28: a form name equal to the class name of the type is the default form.
\* An annotation naming it and an annotation naming no form act on the one
\* tree registered under the class name, which is the tree toFormGroup(T)
\* and toFormGroup(T, T.name) both return; and the two accessor calls give
\* the same result in every state.
C28_OwnNameIsDefault ==
    /\ [](\A t \in Types :
              toFormGroupValue(METADATA, t, OwnName(t)) =
                  toFormGroupValue(METADATA, t, FidUndefined))
    /\ [][/\ (/\ ret'.op \in ClassDecorators \cup FieldDecorators
              /\ ret'.formId \in {FidUndefined, OwnName(ret'.type)}) =>
                 /\ TreeOf(METADATA', ret'.type, NameOf(ret'.type)) \in Groups(heap')
                 /\ ShowsEffect(TreeOf(METADATA', ret'.type, NameOf(ret'.type)))
                 /\ Returned(METADATA', ret'.type, FidUndefined) =
                        TreeOf(METADATA', ret'.type, NameOf(ret'.type))
                 /\ Returned(METADATA', ret'.type, OwnName(ret'.type)) =
                        TreeOf(METADATA', ret'.type, NameOf(ret'.type))
          /\ (Called("toFormGroup") /\ ret'.formId = OwnName(ret'.type)) =>
                 /\ ret'.kind = toFormGroupValue(METADATA, ret'.type, FidUndefined).kind
                 /\ ret'.val = toFormGroupValue(METADATA, ret'.type, FidUndefined).val]_vars

\* C28 witness: FormGroupValidators(required) with no form id made the
\* default tree of A1 (object 1), FormGroupAsyncValidators(P, "A") then acted
\* on it: one tree, holding both.
C28_Witness ==
    /\ ret.op = "FormGroupAsyncValidators" /\ ret.type = "A1"
    /\ ret.formId = FidString("A")
    /\ nextId = 2
    /\ Returned(METADATA, "A1", FidUndefined) = 1
    /\ Returned(METADATA, "A1", FidString("A")) = 1
    /\ heap[1].validators = {"required"}
    /\ UserFn("P") \in heap[1].asyncRaw.fns

(* -------------------------------- C29 --------------------------------- *)

\* the nested tree under ret'.prop in the tree of (ret'.type, f) before the
\* call; Undefined when the field is absent or is a leaf
NestedBefore(f) ==
    LET c == FieldOf(METADATA, heap, ret'.type, f, ret'.prop)
    IN IF c # Undefined /\ heap[c].kind = "group" THEN c ELSE Undefined

\* C29: FormControlTarget applied to a host field that holds a nested tree
\* makes the field of that host a new leaf, no longer the source tree; the
\* source tree stays registered, with its fields and validators as they
\* were (unless the call targets the source tree itself), and stays nested
\* in every host the call does not target.
C29_NestedReplacedInHostOnly ==
    [][Called("FormControlTarget") =>
           \A f \in NamesOf(ret'.type, ret'.formId) :
               NestedBefore(f) # Undefined =>
                   /\ ChildAfter(f) \in DOMAIN heap' \ DOMAIN heap
                   /\ heap'[ChildAfter(f)].kind = "control"
                   /\ NestedBefore(f) \in Registered(METADATA')
                   /\ NestedBefore(f) \in Groups(heap')
                   /\ NestedBefore(f) \notin Targets(ret'.type, ret'.formId)
                          => Content(heap', NestedBefore(f)) = Content(heap, NestedBefore(f))
                   /\ \A g \in Groups(heap) \ Targets(ret'.type, ret'.formId),
                         p \in AllFields :
                          heap[g].controls[p] = NestedBefore(f)
                              => heap'[g].controls[p] = NestedBefore(f)]_vars

\* C29 witness: the default tree of B (object 1) was nested under f in the
\* default tree (object 2) and the tree "v" (object 3) of A1;
\* FormControlTarget on f for the default form made f of the default tree
\* the new leaf 4, and the tree "v" still holds object 1, registered for B.
C29_Witness ==
    /\ ret.op = "FormControlTarget" /\ ret.type = "A1" /\ ret.formId = FidUndefined
    /\ TreeOf(METADATA, "B", "B") = 1
    /\ TreeOf(METADATA, "A1", "A") = 2
    /\ TreeOf(METADATA, "A1", "v") = 3
    /\ FieldOf(METADATA, heap, "A1", "A", "f") = 4
    /\ heap[4].kind = "control"
    /\ FieldOf(METADATA, heap, "A1", "v", "f") = 1

(* -------------------------------- C30 --------------------------------- *)

\* the state of the leaf under propName of form group g in store S: value,
\* synchronous validators, and the user's asynchronous functions it runs
LeafState(S, g, propName) ==
    [value |-> S.h[S.h[g].controls[propName]].value,
     validators |-> S.h[S.h[g].controls[propName]].validators,
     async |-> Carried(S.h[S.h[g].controls[propName]])]

\* FormControlTarget(v) then FormControlAsyncValidators(a) on a field of g
TargetThenAsync(type, propName, v, a, g) ==
    FormControlAsyncValidatorsOne(
        FormControlTargetOne(Current, type, propName, v, g),
        type, propName, UserFn(a), g)

\* FormControlAsyncValidators(a) then FormControlTarget(v) on a field of g
AsyncThenTarget(type, propName, v, a, g) ==
    FormControlTargetOne(
        FormControlAsyncValidatorsOne(Current, type, propName, UserFn(a), g),
        type, propName, v, g)

\* for every registered tree and field it lacks, the two orders give the
\* leaf the same state: the default value, v and a
BothOrdersAgree ==
    \A t \in Types, f \in FormNames, p \in AllFields,
       v \in SyncInputs, a \in AsyncFns :
        (/\ TreeOf(METADATA, t, f) # Undefined
         /\ FieldOf(METADATA, heap, t, f, p) = Undefined)
            => /\ LeafState(TargetThenAsync(t, p, v, a, TreeOf(METADATA, t, f)),
                            TreeOf(METADATA, t, f), p)
                      = [value |-> DefaultValue(t, p), validators |-> v, async |-> {a}]
               /\ LeafState(AsyncThenTarget(t, p, v, a, TreeOf(METADATA, t, f)),
                            TreeOf(METADATA, t, f), p)
                      = [value |-> DefaultValue(t, p), validators |-> v, async |-> {a}]

\* the second of the two annotations, applied to the leaf the first one
\* made and nobody typed into, leaves the default value, v and a
SecondCompletes ==
    /\ Called("FormControlAsyncValidators") =>
           \A f \in NamesOf(ret'.type, ret'.formId), a \in AsyncFns :
               (/\ FormControlAsyncValidators(ret'.type, ret'.prop, UserFn(a), ret'.formId)
                /\ LeafBefore(f) # Undefined
                /\ heap[LeafBefore(f)].asyncRaw = NoAsync
                /\ heap[LeafBefore(f)].value = DefaultValue(ret'.type, ret'.prop))
                   => LeafState(After, TreeOf(METADATA', ret'.type, f), ret'.prop)
                          = [value |-> DefaultValue(ret'.type, ret'.prop),
                             validators |-> heap[LeafBefore(f)].validators,
                             async |-> {a}]
    /\ Called("FormControlTarget") =>
           \A f \in NamesOf(ret'.type, ret'.formId), v \in SyncInputs :
               (/\ FormControlTarget(ret'.type, ret'.prop, v, ret'.formId)
                /\ LeafBefore(f) # Undefined
                /\ heap[LeafBefore(f)].validators = {}
                /\ heap[LeafBefore(f)].value = DefaultValue(ret'.type, ret'.prop))
                   => LeafState(After, TreeOf(METADATA', ret'.type, f), ret'.prop)
                          = [value |-> DefaultValue(ret'.type, ret'.prop),
                             validators |-> v,
                             async |-> Carried(heap[LeafBefore(f)])]

====
